---- MODULE Spec2Model ----
(***************************************************************************)
(* Realtime room coordination engine of the Whiteboard server              *)
(* (realtime/socketServer.ts, kept in src/unnamed/part_001).               *)
(*                                                                         *)
(* One action per socket.io handler.  The only suspension point inside a   *)
(* handler is the room lookup of 'session:join' (await findUnique), so a   *)
(* join is two actions: SessionJoin (request received, lookup started) and *)
(* JoinResolve (lookup resolved, rest of the handler).  Every other        *)
(* handler runs to completion in one action (single-threaded event loop).  *)
(***************************************************************************)
EXTENDS Integers, Sequences, FiniteSets, TLC

\* ------------------------------------------------------------------ bounds

\* Chat messages accepted in one run of Spec.
MaxMsgs == 2
\* Room lookups that may be pending at the same time.
MaxPending == 1
\* Chat messages accepted in one run of SpecChat (one more than needed to
\* evict from a full history).
MaxChatRun == 52
\* Chat messages accepted in one run of SpecRooms.
MaxRoomsMsgs == 1

\* ------------------------------------------------------- program constants

MAX_CHAT_HISTORY == 50

\* -------------------------------------------------------------- the inputs

\* The sockets the model follows, by socket id.
Conns == {1, 2}

\* Accounts of the durable store (prisma.user) and one subject without account.
DbUsers == {"alice", "bob"}
DisplayName(u) == IF u = "alice" THEN "Alice" ELSE "Bob"
Email(u) == IF u = "alice" THEN "alice@x.org" ELSE "bob@x.org"

\* Room ids a client may name, and the ones the durable store holds
\* (prisma.sessionRoom); no route deletes a room.
RoomIds == {"r1", "r2"}
DbRooms == {"r1"}

\* Bearer tokens: none, or a JWT with a subject and a signature that
\* verifies or does not.
NoToken == [none |-> TRUE]
Jwt(sub, ok) == [sub |-> sub, verifies |-> ok]
\* The tokens the client behind each socket may present: the second client
\* is a second tab of the first user, or another user, or has no good token.
ClientTokens(c) ==
    IF c = 1 THEN {Jwt("alice", TRUE)}
    ELSE {Jwt("alice", TRUE), Jwt("bob", TRUE), Jwt("bob", FALSE),
          Jwt("ghost", TRUE), NoToken}

\* The Authorization header of a handshake: absent, or a scheme and
\* credentials.
NoHeader == [absent |-> TRUE]
Header(scheme, tok) == [scheme |-> scheme, credentials |-> tok]

\* The handshakes the client behind each socket may send: the token in the
\* auth field, in the header, or in both.
ClientHandshakes(c) ==
    {[auth |-> t, header |-> NoHeader] : t \in ClientTokens(c)}
    \cup (IF c = 1 THEN {}
          ELSE {[auth |-> NoToken, header |-> Header("Bearer ", Jwt("bob", TRUE))],
                [auth |-> NoToken, header |-> Header("Basic ", Jwt("bob", TRUE))],
                [auth |-> Jwt("bob", FALSE),
                 header |-> Header("Bearer ", Jwt("alice", TRUE))]})

\* Cursor payloads: tool is optional.
Cursors == {[x |-> 1, y |-> 1, tool |-> "pen"], [x |-> 2, y |-> 2]}

\* Chat contents as character sequences.
Whitespace == {" ", "\n"}
Contents == {<<" ", "h", "i", " ">>, <<" ", "\n">>}

\* --------------------------------------------------------------- the state

VARIABLES
    conn,              \* conn[c]: "idle" (no socket yet) | "live" | "closed"
    socketData,        \* socket.data of c: [user, rooms], rooms in insertion order
    roomParticipants,  \* room id -> participants in Map insertion order
    roomChatHistory,   \* room id -> chat messages, oldest first
    groups,            \* socket.io adapter: room id -> set of socket ids
    pending,           \* joins waiting for the room lookup: <<c, roomId>>
                       \* (two lookups of one socket for one room count once)
    nextId,            \* number of message ids drawn so far (randomUUID is fresh)
    emitted,           \* the emit calls of the last handler, in order
    lastOp,            \* the last handler and what it was called with
    accepted,          \* room id -> ids accepted since its history entry was created
    released,          \* ids of the messages sent to a room before it was released
    dbRooms,           \* the room ids the durable store holds
    clients,           \* the page behind each socket: what its handlers have set
    authDb             \* the accounts, the verification codes and the tokens given out

vars == <<conn, socketData, roomParticipants, roomChatHistory, groups, pending,
          nextId, emitted, lastOp, accepted, released, dbRooms, clients, authDb>>

NoData == [user |-> "none", rooms |-> <<>>]

\* The state of a room page when it mounts: useState([]) three times.
\* strokesUndefined says that setStrokes was called with undefined; drawn
\* are the clientIds the page's canvas has made and heard the clientIds of
\* the strokes the page has received.
NewPage ==
    [participants |-> <<>>, chatMessages |-> <<>>, strokes |-> <<>>,
     strokesUndefined |-> FALSE, drawn |-> {}, heard |-> {}]

\* --------------------------------------------------------- pure operators

Range(s) == {s[i] : i \in DOMAIN s}

\* Set.prototype.add: appended unless present.
SetAdd(s, x) == IF x \in Range(s) THEN s ELSE Append(s, x)

\* Set.prototype.delete / Map.prototype.delete by predicate on the element.
RECURSIVE SeqWithout(_, _)
SeqWithout(s, x) ==
    IF s = <<>> THEN <<>>
    ELSE IF Head(s) = x THEN SeqWithout(Tail(s), x)
    ELSE <<Head(s)>> \o SeqWithout(Tail(s), x)

\* String.prototype.trim on a character sequence.
RECURSIVE TrimStart(_)
TrimStart(s) ==
    IF s # <<>> /\ Head(s) \in Whitespace THEN TrimStart(Tail(s)) ELSE s

RECURSIVE TrimEnd(_)
TrimEnd(s) ==
    IF s # <<>> /\ s[Len(s)] \in Whitespace
    THEN TrimEnd(SubSeq(s, 1, Len(s) - 1)) ELSE s

\* A handler that forgets to trim.
Trim_None(s) == s

Trim(s) == TrimEnd(TrimStart(s))

\* A Map.set that forgets to look for the key.
MapSet_AlwaysAppend(ps, presence) == Append(ps, presence)

\* A Map.set that leaves the value of an existing key as it is.
MapSet_KeepsExisting(ps, presence) ==
    IF \E i \in DOMAIN ps : ps[i].userId = presence.userId
    THEN ps
    ELSE Append(ps, presence)

\* Map.prototype.set on the participants of a room: an existing key keeps
\* its place and gets the new value, a new key goes last.
MapSet(ps, presence) ==
    IF \E i \in DOMAIN ps : ps[i].userId = presence.userId
    THEN [i \in DOMAIN ps |->
            IF ps[i].userId = presence.userId THEN presence ELSE ps[i]]
    ELSE Append(ps, presence)

\* A removal that clears the map (participants.clear()) instead of deleting
\* one key.
MapDelete_DeletesAll(ps, userId) == <<>>

\* Map.prototype.delete on the participants of a room.
RECURSIVE MapDelete(_, _)
MapDelete(ps, userId) ==
    IF ps = <<>> THEN <<>>
    ELSE IF Head(ps).userId = userId THEN MapDelete(Tail(ps), userId)
    ELSE <<Head(ps)>> \o MapDelete(Tail(ps), userId)

MapHas(ps, userId) == \E i \in DOMAIN ps : ps[i].userId = userId

\* --------------------------------------------------------------- registry

\* getParticipants: the map after the lazy creation of the room's entry.
getParticipants(rp, roomId) ==
    IF roomId \in DOMAIN rp THEN rp ELSE rp @@ (roomId :> <<>>)

\* getChatHistory: the map after the lazy creation of the room's entry.
getChatHistory(rc, roomId) ==
    IF roomId \in DOMAIN rc THEN rc ELSE rc @@ (roomId :> <<>>)

\* A pushChatMessage that never evicts.
pushChatMessage_NoShift(rc, roomId, message) ==
    LET withEntry == getChatHistory(rc, roomId)
    IN  [withEntry EXCEPT ![roomId] = Append(@, message)]

\* A pushChatMessage that evicts with pop() instead of shift().
pushChatMessage_EvictNewest(rc, roomId, message) ==
    LET withEntry == getChatHistory(rc, roomId)
        pushed == Append(withEntry[roomId], message)
    IN  [withEntry EXCEPT ![roomId] =
            IF Len(pushed) > MAX_CHAT_HISTORY
            THEN SubSeq(pushed, 1, Len(pushed) - 1) ELSE pushed]

\* pushChatMessage: push, then shift once when longer than the maximum.
pushChatMessage(rc, roomId, message) ==
    LET withEntry == getChatHistory(rc, roomId)
        pushed == Append(withEntry[roomId], message)
    IN  [withEntry EXCEPT ![roomId] =
            IF Len(pushed) > MAX_CHAT_HISTORY THEN Tail(pushed) ELSE pushed]

Without(f, k) == [x \in DOMAIN f \ {k} |-> f[x]]

\* A removeParticipant that forgets the chat history of the emptied room.
removeParticipant_KeepsHistory(rp, rc, roomId, userId) ==
    IF roomId \notin DOMAIN rp THEN <<rp, rc>>
    ELSE LET left == MapDelete(rp[roomId], userId)
         IN  IF Len(left) = 0
             THEN <<Without(rp, roomId), rc>>
             ELSE <<[rp EXCEPT ![roomId] = left], rc>>

\* A removeParticipant without the size check: the emptied map stays.
removeParticipant_KeepsEmptyMap(rp, rc, roomId, userId) ==
    IF roomId \notin DOMAIN rp THEN <<rp, rc>>
    ELSE <<[rp EXCEPT ![roomId] = MapDelete(@, userId)], rc>>

\* removeParticipant: the pair <<roomParticipants, roomChatHistory>> after it.
removeParticipant(rp, rc, roomId, userId) ==
    IF roomId \notin DOMAIN rp THEN <<rp, rc>>
    ELSE LET left == MapDelete(rp[roomId], userId)
         IN  IF Len(left) = 0
             THEN <<Without(rp, roomId), Without(rc, roomId)>>
             ELSE <<[rp EXCEPT ![roomId] = left], rc>>

\* ------------------------------------------------------------- dispatcher

\* An emit on the server (io.emit) where socket.emit was meant.
ToSelf_Everyone(c) == {d \in Conns : conn[d] = "live"}

\* socket.emit: one packet to the socket itself; a closed socket's client
\* drops it.
ToSelf(c) == IF conn[c] = "live" THEN {c} ELSE {}

\* A broadcast with io.to(roomId) where socket.to(roomId) was meant.
ToRoomExcept_IncludesSender(g, roomId, c) == {d \in g[roomId] : conn[d] = "live"}

\* socket.to(roomId): the sockets of the room that the namespace still
\* holds, except the sender.
ToRoomExcept(g, roomId, c) == {d \in g[roomId] : d # c /\ conn[d] = "live"}

\* io.to(roomId): the sockets of the room that the namespace still holds.
ToRoom(g, roomId) == {d \in g[roomId] : conn[d] = "live"}

Event(to, ev, payload) == [to |-> to, ev |-> ev, payload |-> payload]

\* -------------------------------------------------------------- the start

Init ==
    /\ conn = [c \in Conns |-> "idle"]
    /\ socketData = [c \in Conns |-> NoData]
    /\ roomParticipants = <<>>
    /\ roomChatHistory = <<>>
    /\ groups = [r \in RoomIds |-> {}]
    /\ pending = {}
    /\ nextId = 0
    /\ emitted = <<>>
    /\ lastOp = [op |-> "init"]
    /\ accepted = <<>>
    /\ released = {}
    /\ dbRooms = DbRooms
    /\ clients = [c \in Conns |-> NewPage]
    /\ authDb = [users |-> <<>>, verifications |-> <<>>, issued |-> {}]

\* ------------------------------------------------------------- handshake

\* header.replace('Bearer ', ''): the credentials of a Bearer header (or
\* of a bare token); any other header stays a string that is no valid JWT.
StripBearer(h) ==
    IF h.scheme \in {"Bearer ", ""} THEN h.credentials
    ELSE Jwt(h.credentials.sub, FALSE)

\* rawToken: auth.token unless it is undefined, else the stripped header.
RawToken(hs) ==
    IF hs.auth # NoToken THEN hs.auth
    ELSE IF hs.header # NoHeader THEN StripBearer(hs.header)
    ELSE NoToken

\* A middleware that forgets the check of the user lookup.
HandshakeError_NoUserCheck(tok) ==
    IF tok = NoToken THEN "Authentication required"
    ELSE IF ~tok.verifies THEN "invalid signature"
    ELSE "none"

\* A middleware that decodes the token without verifying it.
HandshakeError_NoVerify(tok) ==
    IF tok = NoToken THEN "Authentication required"
    ELSE IF tok.sub \notin DbUsers THEN "User not found"
    ELSE "none"

\* io.use: the middleware that admits or rejects a connection attempt.
HandshakeError(tok) ==
    IF tok = NoToken THEN "Authentication required"
    ELSE IF ~tok.verifies THEN "invalid signature"
    ELSE IF tok.sub \notin DbUsers THEN "User not found"
    ELSE "none"

Handshake(c, hs) ==
    /\ conn[c] = "idle"
    /\ LET tok == RawToken(hs)
           err == HandshakeError(tok)
       IN
        /\ conn' = [conn EXCEPT ![c] = IF err = "none" THEN "live" ELSE @]
        /\ socketData' = [socketData EXCEPT ![c] =
                IF err = "none" THEN [user |-> tok.sub, rooms |-> <<>>] ELSE @]
        /\ lastOp' = [op |-> "handshake", conn |-> c, error |-> err, hs |-> hs]
    /\ emitted' = <<>>
    /\ UNCHANGED <<roomParticipants, roomChatHistory, groups, pending, nextId,
                   accepted, released, dbRooms>>

\* ------------------------------------------------------------ session:join

\* The presence record a join stores: no cursor.
NewPresence(u) == [userId |-> u, displayName |-> DisplayName(u), email |-> Email(u)]

\* The history entries that exist keep their record of accepted ids, a new
\* entry starts with none, a deleted entry loses it.
Track(acc, rc) == [r \in DOMAIN rc |-> IF r \in DOMAIN acc THEN acc[r] ELSE <<>>]

\* A join handler that enters the group and the joined set before it awaits
\* the lookup.
SessionJoin_JoinsBeforeLookup(c, roomId) ==
    /\ conn[c] = "live"
    /\ pending' = pending \cup {<<c, roomId>>}
    /\ groups' = [groups EXCEPT ![roomId] = @ \cup {c}]
    /\ socketData' = [socketData EXCEPT ![c].rooms = SetAdd(@, roomId)]
    /\ emitted' = <<>>
    /\ lastOp' = [op |-> "join:request", conn |-> c, roomId |-> roomId]
    /\ UNCHANGED <<conn, roomParticipants, roomChatHistory,
                   nextId, accepted, released, dbRooms>>

\* 'session:join' up to the await: the lookup is started, nothing else.
SessionJoin(c, roomId) ==
    /\ conn[c] = "live"
    /\ pending' = pending \cup {<<c, roomId>>}
    /\ emitted' = <<>>
    /\ lastOp' = [op |-> "join:request", conn |-> c, roomId |-> roomId]
    /\ UNCHANGED <<conn, socketData, roomParticipants, roomChatHistory, groups,
                   nextId, accepted, released, dbRooms>>

\* What prisma.sessionRoom.findUnique can come back with.
LookupOutcomes(roomId) ==
    {IF roomId \in dbRooms THEN "found" ELSE "none", "throws"}

\* The group a socket is added to by socket.join.
GroupJoin(g, roomId, c) == [g EXCEPT ![roomId] = @ \cup {c}]

\* 'session:join' from the await on: runs whether or not the socket is
\* still connected.
JoinResolve(c, roomId, outcome) ==
    /\ <<c, roomId>> \in pending
    /\ outcome \in LookupOutcomes(roomId)
    /\ pending' = pending \ {<<c, roomId>>}
    /\ UNCHANGED <<conn, nextId, released, dbRooms>>
    /\ IF outcome = "none" THEN
            /\ emitted' = <<Event(ToSelf(c), "session:error",
                                  [roomId |-> roomId, message |-> "Room not found"])>>
            /\ lastOp' = [op |-> "join:notfound", conn |-> c, roomId |-> roomId]
            /\ UNCHANGED <<socketData, roomParticipants, roomChatHistory, groups, accepted>>
       ELSE IF outcome = "throws" THEN
            /\ emitted' = <<Event(ToSelf(c), "session:error",
                                  [roomId |-> roomId, message |-> "lookup failed"])>>
            /\ lastOp' = [op |-> "join:failed", conn |-> c, roomId |-> roomId]
            /\ UNCHANGED <<socketData, roomParticipants, roomChatHistory, groups, accepted>>
       ELSE
            LET user == socketData[c].user
                presence == NewPresence(user)
                rp1 == getParticipants(roomParticipants, roomId)
                rp2 == [rp1 EXCEPT ![roomId] = MapSet(@, presence)]
                rc1 == getChatHistory(roomChatHistory, roomId)
                g1 == GroupJoin(groups, roomId, c)
            IN  /\ groups' = g1
                /\ socketData' = [socketData EXCEPT ![c].rooms = SetAdd(@, roomId)]
                /\ roomParticipants' = rp2
                /\ roomChatHistory' = rc1
                /\ accepted' = Track(accepted, rc1)
                /\ emitted' =
                     << Event(ToSelf(c), "session:joined",
                              [roomId |-> roomId,
                               participants |-> rp2[roomId],
                               chatHistory |-> rc1[roomId]]),
                        Event(ToRoomExcept(g1, roomId, c), "session:participant:joined",
                              [roomId |-> roomId, participant |-> presence]) >>
                /\ lastOp' = [op |-> "join", conn |-> c, roomId |-> roomId,
                              wasPresent |-> roomId \in DOMAIN roomParticipants
                                   /\ MapHas(roomParticipants[roomId], user),
                              roomExisted |-> roomId \in DOMAIN roomParticipants]

\* ----------------------------------------------------------- session:leave

\* The ids sent to the rooms that lose their participants entry in a step.
Released(rp, rpAfter) ==
    UNION {Range(accepted[r]) :
             r \in ((DOMAIN rp) \ (DOMAIN rpAfter)) \cap (DOMAIN accepted)}

GroupLeave(g, roomId, c) == [g EXCEPT ![roomId] = @ \ {c}]

SessionLeave(c, roomId) ==
    /\ conn[c] = "live"
    /\ LET user == socketData[c].user
           g1 == GroupLeave(groups, roomId, c)
           reg == removeParticipant(roomParticipants, roomChatHistory, roomId, user)
       IN  /\ groups' = g1
           /\ socketData' = [socketData EXCEPT ![c].rooms = SeqWithout(@, roomId)]
           /\ roomParticipants' = reg[1]
           /\ roomChatHistory' = reg[2]
           /\ accepted' = Track(accepted, reg[2])
           /\ released' = released \cup Released(roomParticipants, reg[1])
           /\ emitted' = <<Event(ToRoomExcept(g1, roomId, c), "session:participant:left",
                                 [roomId |-> roomId, userId |-> user])>>
           /\ lastOp' = [op |-> "leave", conn |-> c, roomId |-> roomId,
                         wasJoined |-> roomId \in Range(socketData[c].rooms)]
    /\ UNCHANGED <<conn, pending, nextId, dbRooms>>

\* ---------------------------------------------------------- session:cursor

\* A cursor update that merges into the stored cursor ({...old, ...new}).
WithCursor_Merges(p, cursor) ==
    [userId |-> p.userId, displayName |-> p.displayName, email |-> p.email,
     cursor |-> IF "cursor" \in DOMAIN p
                THEN [k \in DOMAIN p.cursor \cup DOMAIN cursor |->
                        IF k \in DOMAIN cursor THEN cursor[k] ELSE p.cursor[k]]
                ELSE cursor]

\* presence.cursor = cursor: the stored cursor is the submitted object.
WithCursor(p, cursor) ==
    [userId |-> p.userId, displayName |-> p.displayName, email |-> p.email,
     cursor |-> cursor]

\* Whether the handler gets past its two early returns.
CursorAccepted(c, roomId) ==
    /\ roomId \in DOMAIN roomParticipants
    /\ MapHas(roomParticipants[roomId], socketData[c].user)

SessionCursor(c, roomId, cursor) ==
    /\ conn[c] = "live"
    /\ LET user == socketData[c].user IN
       IF CursorAccepted(c, roomId) THEN
            /\ roomParticipants' = [roomParticipants EXCEPT ![roomId] =
                    [i \in DOMAIN @ |->
                        IF @[i].userId = user THEN WithCursor(@[i], cursor) ELSE @[i]]]
            /\ emitted' = <<Event(ToRoomExcept(groups, roomId, c), "session:cursor",
                                  [roomId |-> roomId, userId |-> user, cursor |-> cursor])>>
       ELSE
            /\ emitted' = <<>>
            /\ UNCHANGED roomParticipants
    /\ lastOp' = [op |-> "cursor", conn |-> c, roomId |-> roomId,
                  wasJoined |-> roomId \in Range(socketData[c].rooms)]
    /\ UNCHANGED <<conn, socketData, roomChatHistory, groups, pending, nextId,
                   accepted, released, dbRooms>>

\* ------------------------------------------------------------ chat:message

ChatMessage(c, roomId, content) ==
    /\ conn[c] = "live"
    /\ LET user == socketData[c].user
           trimmed == Trim(content)
           message == [id |-> nextId + 1, roomId |-> roomId, userId |-> user,
                       displayName |-> DisplayName(user), content |-> trimmed]
       IN  IF trimmed = <<>> THEN
                /\ emitted' = <<>>
                /\ UNCHANGED <<roomChatHistory, nextId, accepted>>
           ELSE
                /\ roomChatHistory' = pushChatMessage(roomChatHistory, roomId, message)
                /\ nextId' = nextId + 1
                /\ accepted' = [Track(accepted, roomChatHistory') EXCEPT
                                    ![roomId] = Append(@, message.id)]
                /\ emitted' = <<Event(ToRoom(groups, roomId), "chat:message", message)>>
    /\ lastOp' = [op |-> "chat", conn |-> c, roomId |-> roomId, content |-> content,
                  wasJoined |-> roomId \in Range(socketData[c].rooms)]
    /\ UNCHANGED <<conn, socketData, roomParticipants, groups, pending, released,
                   dbRooms>>

\* -------------------------------------------------------------- disconnect

\* A disconnect handler that walks every room instead of the joined ones.
DisconnectRooms_AllRooms(c) == <<"r1", "r2">>

\* The rooms the disconnect handler walks: Array.from(socket.data.rooms).
DisconnectRooms(c) == socketData[c].rooms

\* rooms.forEach of the disconnect handler: the registry and the emit calls
\* after the rooms left to walk, from the registry and emit calls so far.
RECURSIVE DisconnectWalk(_, _, _, _, _, _)
DisconnectWalk(rooms, c, g, rp, rc, out) ==
    IF rooms = <<>> THEN [rp |-> rp, rc |-> rc, out |-> out]
    ELSE LET roomId == Head(rooms)
             user == socketData[c].user
             reg == removeParticipant(rp, rc, roomId, user)
         IN  DisconnectWalk(Tail(rooms), c, g, reg[1], reg[2],
                Append(out, Event(ToRoomExcept(g, roomId, c),
                                  "session:participant:left",
                                  [roomId |-> roomId, userId |-> user])))

\* The socket has left every group (socket.io does it before it calls the
\* 'disconnect' handlers); then the handler runs.
Disconnect(c) ==
    /\ conn[c] = "live"
    /\ conn' = [conn EXCEPT ![c] = "closed"]
    /\ LET g1 == [r \in RoomIds |-> groups[r] \ {c}]
           w == DisconnectWalk(DisconnectRooms(c), c, g1,
                               roomParticipants, roomChatHistory, <<>>)
       IN  /\ groups' = g1
           /\ roomParticipants' = w.rp
           /\ roomChatHistory' = w.rc
           /\ accepted' = Track(accepted, w.rc)
           /\ released' = released \cup Released(roomParticipants, w.rp)
           /\ emitted' = w.out
    /\ socketData' = [socketData EXCEPT ![c].rooms = <<>>]
    /\ lastOp' = [op |-> "disconnect", conn |-> c, rooms |-> socketData[c].rooms]
    /\ UNCHANGED <<pending, nextId, dbRooms>>

\* ---------------------------------------------------------- the room page

\* How many of its messages the page keeps when one more arrives.
CHAT_TAIL == 49

\* Array.prototype.slice(-n): the last n elements.
SliceLast(s, n) == IF Len(s) <= n THEN s ELSE SubSeq(s, Len(s) - n + 1, Len(s))

\* 'session:joined': both lists are replaced by the snapshot's.
OnJoined(page, payload) ==
    [page EXCEPT !.participants = payload.participants,
                 !.chatMessages = payload.chatHistory]

\* A page that appends every participant it hears of.
OnParticipantJoined_NoDedup(page, payload) ==
    [page EXCEPT !.participants = Append(@, payload.participant)]

\* 'session:participant:joined': appended unless the user id is listed.
OnParticipantJoined(page, payload) ==
    IF \E i \in DOMAIN page.participants :
            page.participants[i].userId = payload.participant.userId
    THEN page
    ELSE [page EXCEPT !.participants = Append(@, payload.participant)]

\* Array.prototype.filter on the participants: those of another user id.
RECURSIVE FilterOthers(_, _)
FilterOthers(ps, userId) ==
    IF ps = <<>> THEN <<>>
    ELSE IF Head(ps).userId = userId THEN FilterOthers(Tail(ps), userId)
    ELSE <<Head(ps)>> \o FilterOthers(Tail(ps), userId)

\* 'session:participant:left'.
OnParticipantLeft(page, payload) ==
    [page EXCEPT !.participants = FilterOthers(@, payload.userId)]

\* 'session:cursor': {...participant, cursor} for the owner's entry.
OnCursor(page, payload) ==
    [page EXCEPT !.participants =
        [i \in DOMAIN @ |->
            IF @[i].userId = payload.userId
            THEN [k \in DOMAIN @[i] \cup {"cursor"} |->
                    IF k = "cursor" THEN payload.cursor ELSE @[i][k]]
            ELSE @[i]]]

\* A page that keeps every message.
OnChatMessage_KeepsAll(page, message) ==
    [page EXCEPT !.chatMessages = Append(@, message)]

\* 'chat:message': [...prev.slice(-49), message].
OnChatMessage(page, message) ==
    [page EXCEPT !.chatMessages = Append(SliceLast(@, CHAT_TAIL), message)]

\* What the page does with one event it receives; 'session:error' changes
\* neither list.
OnEvent(page, e) ==
    CASE e.ev = "session:joined" -> OnJoined(page, e.payload)
      [] e.ev = "session:participant:joined" -> OnParticipantJoined(page, e.payload)
      [] e.ev = "session:participant:left" -> OnParticipantLeft(page, e.payload)
      [] e.ev = "session:cursor" -> OnCursor(page, e.payload)
      [] e.ev = "chat:message" -> OnChatMessage(page, e.payload)
      [] OTHER -> page

\* The pages after the emit calls of one handler have reached them, in the
\* order of the calls.
RECURSIVE Deliver(_, _)
Deliver(cl, out) ==
    IF out = <<>> THEN cl
    ELSE Deliver([c \in Conns |->
                    IF c \in Head(out).to THEN OnEvent(cl[c], Head(out)) ELSE cl[c]],
                 Tail(out))

\* A step of the server whose events reach the pages.
Delivered == clients' = Deliver(clients, emitted') /\ UNCHANGED authDb

\* ---------------------------------------------------- the whiteboard page

\* The room of the pages (useParams).
PageRoom == "r1"

\* The stroke the page shows until the server's copy arrives:
\* id `local-${clientId}`.
OptimisticStroke(k) == [id |-> <<"local", k>>, clientId |-> k, roomId |-> PageRoom]

\* A stroke as the server stamps it, with the clientId of its submission.
StampedStroke(k) == [id |-> <<"server", k>>, clientId |-> k, roomId |-> PageRoom]

\* A stamped stroke without clientId (the field is optional).
AnonymousStroke == [id |-> <<"server", "n">>, roomId |-> PageRoom]

\* handleStrokeComplete, the page's part: the optimistic stroke goes last.
handleStrokeComplete(page, k) ==
    [page EXCEPT !.strokes = Append(@, OptimisticStroke(k)),
                 !.drawn = @ \cup {k}]

\* A page that appends every stroke it receives.
OnWhiteboardStroke_AlwaysAppends(page, payload) ==
    IF payload.roomId # PageRoom THEN page
    ELSE [page EXCEPT !.strokes = Append(@, payload.stroke)]

\* 'whiteboard:stroke': a stroke of another room is ignored; a stroke whose
\* clientId is in the list takes the place of the first such entry; any
\* other stroke goes last.
OnWhiteboardStroke(page, payload) ==
    IF payload.roomId # PageRoom THEN page
    ELSE LET prev == page.strokes
             stroke == payload.stroke
             hits == {i \in DOMAIN prev :
                        /\ "clientId" \in DOMAIN stroke
                        /\ "clientId" \in DOMAIN prev[i]
                        /\ prev[i].clientId = stroke.clientId}
         IN  IF hits # {}
             THEN LET existingIndex == CHOOSE i \in hits : \A j \in hits : i <= j
                  IN  [page EXCEPT !.strokes = [prev EXCEPT ![existingIndex] = stroke]]
             ELSE [page EXCEPT !.strokes = Append(prev, stroke)]

\* 'whiteboard:clear'.
OnWhiteboardClear(page, payload) ==
    IF payload.roomId # PageRoom THEN page
    ELSE [page EXCEPT !.strokes = <<>>, !.strokesUndefined = FALSE]

\* handleClearBoard, the page's part.
handleClearBoard(page) == [page EXCEPT !.strokes = <<>>, !.strokesUndefined = FALSE]

\* 'session:joined' of the whiteboard page: setStrokes(whiteboardStrokes),
\* which is undefined when the payload has no such field.
OnJoinedBoard(page, payload) ==
    IF "whiteboardStrokes" \in DOMAIN payload
    THEN [OnJoined(page, payload) EXCEPT !.strokes = payload.whiteboardStrokes,
                                         !.strokesUndefined = FALSE]
    ELSE [OnJoined(page, payload) EXCEPT !.strokes = <<>>,
                                         !.strokesUndefined = TRUE]

OnBoardEvent(page, e) ==
    CASE e.ev = "session:joined" -> OnJoinedBoard(page, e.payload)
      [] e.ev = "whiteboard:stroke" -> OnWhiteboardStroke(page, e.payload)
      [] e.ev = "whiteboard:clear" -> OnWhiteboardClear(page, e.payload)
      [] OTHER -> OnEvent(page, e)

RECURSIVE DeliverBoard(_, _)
DeliverBoard(cl, out) ==
    IF out = <<>> THEN cl
    ELSE DeliverBoard([c \in Conns |->
                         IF c \in Head(out).to THEN OnBoardEvent(cl[c], Head(out))
                         ELSE cl[c]],
                      Tail(out))

\* A step of the server whose events reach whiteboard pages.
DeliveredBoard == clients' = DeliverBoard(clients, emitted') /\ UNCHANGED authDb

\* ------------------------------------------------------- the specification

\* A step of the server in a specification that does not follow the pages.
ServerOnly == UNCHANGED <<clients, authDb>>

Next ==
    \/ ServerOnly /\ \E c \in Conns : \E hs \in ClientHandshakes(c) : Handshake(c, hs)
    \/ ServerOnly /\ \E c \in Conns, r \in RoomIds :
            /\ Cardinality(pending) < MaxPending
            /\ <<c, r>> \notin pending
            /\ SessionJoin(c, r)
    \/ ServerOnly /\ \E c \in Conns, r \in RoomIds, o \in {"found", "none", "throws"} :
            JoinResolve(c, r, o)
    \/ ServerOnly /\ \E c \in Conns, r \in RoomIds : SessionLeave(c, r)
    \/ ServerOnly /\ \E c \in Conns, r \in RoomIds, cur \in Cursors : SessionCursor(c, r, cur)
    \/ ServerOnly /\ \E c \in Conns, r \in RoomIds, content \in Contents :
            /\ nextId < MaxMsgs
            /\ ChatMessage(c, r, content)
    \/ ServerOnly /\ \E c \in Conns : Disconnect(c)

Spec == Init /\ [][Next]_vars

\* One client that joins, chats, leaves and rejoins one room long enough to
\* fill the history and evict from it.
ChatRunContents == {<<" ", "h", "i", " ">>, <<" ", "\n">>}

NextChat ==
    \/ ServerOnly /\ \E hs \in ClientHandshakes(1) : Handshake(1, hs)
    \/ ServerOnly /\ pending = {} /\ SessionJoin(1, "r1")
    \/ ServerOnly /\ JoinResolve(1, "r1", "found")
    \/ ServerOnly /\ SessionLeave(1, "r1")
    \/ ServerOnly /\ \E content \in ChatRunContents :
            /\ nextId < MaxChatRun
            /\ ChatMessage(1, "r1", content)
    \/ ServerOnly /\ Disconnect(1)

SpecChat == Init /\ [][NextChat]_vars

\* POST /api/rooms: prisma.sessionRoom.create adds a room to the store.
CreateRoom(roomId) ==
    /\ roomId \notin dbRooms
    /\ dbRooms' = dbRooms \cup {roomId}
    /\ emitted' = <<>>
    /\ lastOp' = [op |-> "createRoom", roomId |-> roomId]
    /\ UNCHANGED <<conn, socketData, roomParticipants, roomChatHistory, groups,
                   pending, nextId, accepted, released>>

\* Two users, one socket each, and a second room that is created while the
\* server runs, so that a socket can be in two rooms at once.
RoomsHandshake(c) ==
    [auth |-> Jwt(IF c = 1 THEN "alice" ELSE "bob", TRUE), header |-> NoHeader]

NextRooms ==
    \/ ServerOnly /\ \E c \in Conns : Handshake(c, RoomsHandshake(c))
    \/ ServerOnly /\ \E r \in RoomIds : CreateRoom(r)
    \/ ServerOnly /\ \E c \in Conns, r \in RoomIds :
            /\ Cardinality(pending) < MaxPending
            /\ <<c, r>> \notin pending
            /\ SessionJoin(c, r)
    \/ ServerOnly /\ \E c \in Conns, r \in RoomIds, o \in {"found", "none", "throws"} :
            JoinResolve(c, r, o)
    \/ ServerOnly /\ \E c \in Conns, r \in RoomIds : SessionLeave(c, r)
    \/ ServerOnly /\ \E c \in Conns, r \in RoomIds :
            /\ nextId < MaxRoomsMsgs
            /\ ChatMessage(c, r, <<" ", "h", "i", " ">>)
    \/ ServerOnly /\ \E c \in Conns : Disconnect(c)

SpecRooms == Init /\ [][NextRooms]_vars

\* The two users in two rooms as above, with cursor updates and one lookup
\* under way at a time.
NextFrame ==
    \/ ServerOnly /\ \E c \in Conns : Handshake(c, RoomsHandshake(c))
    \/ ServerOnly /\ \E r \in RoomIds : CreateRoom(r)
    \/ ServerOnly /\ \E c \in Conns, r \in RoomIds :
            /\ pending = {}
            /\ SessionJoin(c, r)
    \/ ServerOnly /\ \E c \in Conns, r \in RoomIds, o \in {"found", "none", "throws"} :
            JoinResolve(c, r, o)
    \/ ServerOnly /\ \E c \in Conns, r \in RoomIds : SessionLeave(c, r)
    \/ ServerOnly /\ \E c \in Conns, r \in RoomIds :
            SessionCursor(c, r, [x |-> 2, y |-> 2])
    \/ ServerOnly /\ \E c \in Conns, r \in RoomIds :
            /\ nextId < MaxRoomsMsgs
            /\ ChatMessage(c, r, <<" ", "h", "i", " ">>)
    \/ ServerOnly /\ \E c \in Conns : Disconnect(c)

SpecFrame == Init /\ [][NextFrame]_vars

\* The tokens of the pages: the second page is a second tab of the first
\* user, or another user's.
PageHandshakes(c) ==
    {[auth |-> Jwt(u, TRUE), header |-> NoHeader] :
        u \in IF c = 1 THEN {"alice"} ELSE {"alice", "bob"}}

\* The server with a room page behind each socket; every request is for the
\* room of the pages.
NextPages ==
    \/ /\ \E c \in Conns : \E hs \in PageHandshakes(c) : Handshake(c, hs)
       /\ Delivered
    \/ /\ \E c \in Conns :
               /\ Cardinality(pending) < MaxPending
               /\ <<c, "r1">> \notin pending
               /\ SessionJoin(c, "r1")
       /\ Delivered
    \/ /\ \E c \in Conns, o \in {"found", "throws"} : JoinResolve(c, "r1", o)
       /\ Delivered
    \/ /\ \E c \in Conns : SessionLeave(c, "r1")
       /\ Delivered
    \/ /\ \E c \in Conns, cur \in Cursors : SessionCursor(c, "r1", cur)
       /\ Delivered
    \/ /\ \E c \in Conns, content \in {<<"h", "i">>} :
               /\ nextId < MaxMsgs
               /\ ChatMessage(c, "r1", content)
       /\ Delivered
    \/ /\ \E c \in Conns : Disconnect(c)
       /\ Delivered

SpecPages == Init /\ [][NextPages]_vars

\* One page and enough messages to fill the history and the page's list.
NextChatPage ==
    \/ /\ \E hs \in PageHandshakes(1) : Handshake(1, hs)
       /\ Delivered
    \/ /\ pending = {} /\ SessionJoin(1, "r1")
       /\ Delivered
    \/ /\ JoinResolve(1, "r1", "found")
       /\ Delivered
    \/ /\ SessionLeave(1, "r1")
       /\ Delivered
    \/ /\ \E content \in ChatRunContents :
               /\ nextId < MaxChatRun
               /\ ChatMessage(1, "r1", content)
       /\ Delivered
    \/ /\ Disconnect(1)
       /\ Delivered

SpecChatPage == Init /\ [][NextChatPage]_vars

\* The handlers whose body is not inside a try block and that read a field
\* of their payload, by event name.
UnguardedEvents == {"session:leave", "session:cursor", "chat:message"}

\* An event that arrives without a payload object (socket.emit(ev) or
\* socket.emit(ev, null)): the handler throws a TypeError while it
\* destructures its argument, before it changed or sent anything.  No
\* handler of the process catches it, so the process ends.
Malformed(c, ev) ==
    /\ conn[c] = "live"
    /\ emitted' = <<>>
    /\ lastOp' = [op |-> "uncaught", conn |-> c, ev |-> ev]
    /\ UNCHANGED <<conn, socketData, roomParticipants, roomChatHistory, groups,
                   pending, nextId, accepted, released, dbRooms>>

\* The process has ended with an uncaught exception: nothing runs after it.
Crashed == lastOp.op = "uncaught"

\* Two users in one room, with clients that may send an event without payload.
NextFaults ==
    \/ ServerOnly /\ ~Crashed /\ \E c \in Conns : Handshake(c, RoomsHandshake(c))
    \/ ServerOnly /\ ~Crashed /\ \E c \in Conns :
            /\ Cardinality(pending) < MaxPending
            /\ <<c, "r1">> \notin pending
            /\ SessionJoin(c, "r1")
    \/ ServerOnly /\ ~Crashed /\ \E c \in Conns, o \in {"found", "throws"} : JoinResolve(c, "r1", o)
    \/ ServerOnly /\ ~Crashed /\ \E c \in Conns : SessionLeave(c, "r1")
    \/ ServerOnly /\ ~Crashed /\ \E c \in Conns, cur \in Cursors : SessionCursor(c, "r1", cur)
    \/ ServerOnly /\ ~Crashed /\ \E c \in Conns :
            /\ nextId < MaxRoomsMsgs
            /\ ChatMessage(c, "r1", <<" ", "h", "i", " ">>)
    \/ ServerOnly /\ ~Crashed /\ \E c \in Conns : Disconnect(c)
    \/ ServerOnly /\ ~Crashed /\ \E c \in Conns, ev \in UnguardedEvents : Malformed(c, ev)

SpecFaults == Init /\ [][NextFaults]_vars

\* The correlation tokens the whiteboard client puts on its strokes.
ClientIds == {"k1", "k2"}

\* 'whiteboard:stroke' sent by the whiteboard client: the connection handler
\* registers no listener for it, so socket.io drops the packet.
WhiteboardStroke(c, roomId, clientId) ==
    /\ conn[c] = "live"
    /\ emitted' = <<>>
    /\ lastOp' = [op |-> "stroke", conn |-> c, roomId |-> roomId,
                  clientId |-> clientId,
                  wasJoined |-> roomId \in Range(socketData[c].rooms)]
    /\ UNCHANGED <<conn, socketData, roomParticipants, roomChatHistory, groups,
                   pending, nextId, accepted, released, dbRooms>>

\* 'whiteboard:clear' sent by the whiteboard client: no listener either.
WhiteboardClear(c, roomId) ==
    /\ conn[c] = "live"
    /\ emitted' = <<>>
    /\ lastOp' = [op |-> "clear", conn |-> c, roomId |-> roomId,
                  wasJoined |-> roomId \in Range(socketData[c].rooms)]
    /\ UNCHANGED <<conn, socketData, roomParticipants, roomChatHistory, groups,
                   pending, nextId, accepted, released, dbRooms>>

\* Two users with the whiteboard client in one room.
NextBoard ==
    \/ ServerOnly /\ \E c \in Conns : Handshake(c, RoomsHandshake(c))
    \/ ServerOnly /\ \E c \in Conns :
            /\ Cardinality(pending) < MaxPending
            /\ <<c, "r1">> \notin pending
            /\ SessionJoin(c, "r1")
    \/ ServerOnly /\ \E c \in Conns, o \in {"found", "throws"} : JoinResolve(c, "r1", o)
    \/ ServerOnly /\ \E c \in Conns : SessionLeave(c, "r1")
    \/ ServerOnly /\ \E c \in Conns, k \in ClientIds : WhiteboardStroke(c, "r1", k)
    \/ ServerOnly /\ \E c \in Conns : WhiteboardClear(c, "r1")
    \/ ServerOnly /\ \E c \in Conns : Disconnect(c)

SpecBoard == Init /\ [][NextBoard]_vars

\* handleStrokeComplete: the canvas hands over a stroke with a clientId it
\* has just made (createClientId); the page shows it and submits it.
PageStroke(c, k) ==
    /\ ~clients[c].strokesUndefined
    /\ \A d \in Conns : k \notin clients[d].drawn
    /\ clients' = [clients EXCEPT ![c] = handleStrokeComplete(@, k)]
    /\ UNCHANGED authDb
    /\ WhiteboardStroke(c, PageRoom, k)

\* handleClearBoard: the page empties its board and submits the clear.
PageClear(c) ==
    /\ ~clients[c].strokesUndefined
    /\ clients' = [clients EXCEPT ![c] = handleClearBoard(@)]
    /\ UNCHANGED authDb
    /\ WhiteboardClear(c, PageRoom)

\* The whiteboard pages on the server as it is.
NextBoardPages ==
    \/ /\ \E c \in Conns : Handshake(c, RoomsHandshake(c))
       /\ DeliveredBoard
    \/ /\ \E c \in Conns :
               /\ Cardinality(pending) < MaxPending
               /\ <<c, PageRoom>> \notin pending
               /\ SessionJoin(c, PageRoom)
       /\ DeliveredBoard
    \/ /\ \E c \in Conns, o \in {"found", "throws"} : JoinResolve(c, PageRoom, o)
       /\ DeliveredBoard
    \/ /\ \E c \in Conns : SessionLeave(c, PageRoom)
       /\ DeliveredBoard
    \/ \E c \in Conns, k \in ClientIds : PageStroke(c, k)
    \/ \E c \in Conns : PageClear(c)
    \/ /\ \E c \in Conns : Disconnect(c)
       /\ DeliveredBoard

SpecBoardPages == Init /\ [][NextBoardPages]_vars

\* How long the board of the page may get.
MaxStrokes == 4

\* The clientIds of strokes that other pages made.
ForeignIds == {"f1"}

\* The 'whiteboard:stroke' payloads that may reach a page.
StrokePayloads ==
    {[roomId |-> r, stroke |-> st] :
        r \in RoomIds,
        st \in {StampedStroke(k) : k \in ClientIds \cup ForeignIds} \cup {AnonymousStroke}}

\* A 'whiteboard:stroke' event reaches the page.  Every submission is
\* relayed once and a clientId is made once, so a clientId arrives once, and
\* one of the page's own only after the page submitted it.
StrokeArrives(c, payload) ==
    /\ conn[c] = "live"
    /\ Len(clients[c].strokes) < MaxStrokes
    /\ "clientId" \in DOMAIN payload.stroke
          => /\ payload.stroke.clientId \notin clients[c].heard
             /\ payload.stroke.clientId \in ClientIds
                   => payload.stroke.clientId \in clients[c].drawn
    /\ clients' = [clients EXCEPT ![c] =
            [OnWhiteboardStroke(@, payload) EXCEPT !.heard =
                IF "clientId" \in DOMAIN payload.stroke
                THEN @ \cup {payload.stroke.clientId} ELSE @]]
    /\ emitted' = <<>>
    /\ lastOp' = [op |-> "page:stroke", conn |-> c, payload |-> payload]
    /\ UNCHANGED <<conn, socketData, roomParticipants, roomChatHistory, groups,
                   pending, nextId, accepted, released, dbRooms, authDb>>

\* A 'whiteboard:clear' event reaches the page.
ClearArrives(c, roomId) ==
    /\ conn[c] = "live"
    /\ clients' = [clients EXCEPT ![c] =
            OnWhiteboardClear(@, [roomId |-> roomId, clearedBy |-> "bob"])]
    /\ emitted' = <<>>
    /\ lastOp' = [op |-> "page:clear", conn |-> c, roomId |-> roomId]
    /\ UNCHANGED <<conn, socketData, roomParticipants, roomChatHistory, groups,
                   pending, nextId, accepted, released, dbRooms, authDb>>

\* One whiteboard page, what its user draws and what reaches it.
NextStrokes ==
    \/ ServerOnly /\ Handshake(1, RoomsHandshake(1))
    \/ \E k \in ClientIds :
            /\ Len(clients[1].strokes) < MaxStrokes
            /\ PageStroke(1, k)
    \/ PageClear(1)
    \/ \E payload \in StrokePayloads : StrokeArrives(1, payload)
    \/ \E r \in RoomIds : ClearArrives(1, r)

SpecStrokes == Init /\ [][NextStrokes]_vars

\* ------------------------------------------------------------ the accounts

\* The email addresses of requests: the account's, the same as typed with
\* blanks and capitals, and one that no account has.
AuthEmails == {"alice@x.io", " Alice@X.io ", "mallory@x.io"}

\* email.trim().toLowerCase()
normalizeEmail(email) == IF email = " Alice@X.io " THEN "alice@x.io" ELSE email

\* The user id prisma gives the account of an address.
UserIdOf(email) == IF email = "alice@x.io" THEN "alice" ELSE "mallory"

Passwords == {"password1", "12345678"}

\* bcrypt.hash and bcrypt.compare.
PasswordHash(password) == <<"bcrypt", password>>

PasswordMatches(password, hash) == hash = PasswordHash(password)

\* The codes generateCode may draw, and the codes a request may carry: a
\* drawn one, one typed with a blank, and one that was never drawn.
GeneratedCodes == {"111111", "222222"}

RequestCodes == GeneratedCodes \cup {" 111111", "0000"}

\* code.trim()
TrimCode(code) == IF code = " 111111" THEN "111111" ELSE code

\* How many verification rows the store may hold.
MaxCodes == 2

\* createToken: a token for the user id, signed with the server's secret.
createToken(userId) == Jwt(userId, TRUE)

\* What every request of the accounts router leaves alone.
AuthFrame ==
    /\ emitted' = <<>>
    /\ UNCHANGED <<conn, socketData, roomParticipants, roomChatHistory, groups,
                   pending, nextId, accepted, released, dbRooms, clients>>

\* issueVerificationToken: a row with a drawn code, unconsumed, not expired.
NewVerification(userId, code) ==
    [userId |-> userId, token |-> code, consumed |-> FALSE, expired |-> FALSE]

\* POST /register
Register(email, password, displayName, code) ==
    /\ Len(authDb.verifications) < MaxCodes
    /\ LET normalizedEmail == normalizeEmail(email) IN
       IF normalizedEmail \in DOMAIN authDb.users THEN
            /\ lastOp' = [op |-> "register", email |-> email, status |-> 409,
                          token |-> NoToken]
            /\ UNCHANGED authDb
       ELSE
            /\ authDb' = [authDb EXCEPT
                    !.users = [e \in DOMAIN @ \cup {normalizedEmail} |->
                        IF e = normalizedEmail
                        THEN [id |-> UserIdOf(normalizedEmail),
                              passwordHash |-> PasswordHash(password),
                              status |-> "pending"]
                        ELSE @[e]],
                    !.verifications =
                        Append(@, NewVerification(UserIdOf(normalizedEmail), code))]
            /\ lastOp' = [op |-> "register", email |-> email, status |-> 201,
                          token |-> NoToken]
    /\ AuthFrame

\* POST /login
Login(email, password) ==
    /\ LET normalizedEmail == normalizeEmail(email) IN
       IF normalizedEmail \notin DOMAIN authDb.users THEN
            /\ lastOp' = [op |-> "login", email |-> email, password |-> password,
                          status |-> 401, token |-> NoToken]
            /\ UNCHANGED authDb
       ELSE LET user == authDb.users[normalizedEmail] IN
            IF ~PasswordMatches(password, user.passwordHash) THEN
                /\ lastOp' = [op |-> "login", email |-> email, password |-> password,
                              status |-> 401, token |-> NoToken]
                /\ UNCHANGED authDb
            ELSE IF user.status # "active" THEN
                /\ lastOp' = [op |-> "login", email |-> email, password |-> password,
                              status |-> 403, token |-> NoToken]
                /\ UNCHANGED authDb
            ELSE
                /\ lastOp' = [op |-> "login", email |-> email, password |-> password,
                              status |-> 200, token |-> createToken(user.id)]
                /\ authDb' = [authDb EXCEPT !.issued = @ \cup {createToken(user.id)}]
    /\ AuthFrame

\* The branch of the verify route that answers with a token before it looks
\* for the code.
VerifyShortcut(user) == user.status = "active"

\* prisma.emailVerification.findFirst of the verify route: the rows of the
\* user with this code, unconsumed and not expired.
FindVerification(db, userId, code) ==
    {i \in DOMAIN db.verifications :
        /\ db.verifications[i].userId = userId
        /\ db.verifications[i].token = code
        /\ ~db.verifications[i].consumed
        /\ ~db.verifications[i].expired}

\* POST /verify
Verify(email, rawCode) ==
    /\ LET normalizedEmail == normalizeEmail(email)
           code == TrimCode(rawCode)
       IN
       IF normalizedEmail \notin DOMAIN authDb.users THEN
            /\ lastOp' = [op |-> "verify", email |-> email, code |-> rawCode,
                          status |-> 404, token |-> NoToken]
            /\ UNCHANGED authDb
       ELSE LET user == authDb.users[normalizedEmail]
                found == FindVerification(authDb, user.id, code)
            IN
            IF VerifyShortcut(user) THEN
                /\ lastOp' = [op |-> "verify", email |-> email, code |-> rawCode,
                              status |-> 200, token |-> createToken(user.id)]
                /\ authDb' = [authDb EXCEPT !.issued = @ \cup {createToken(user.id)}]
            ELSE IF found = {} THEN
                /\ lastOp' = [op |-> "verify", email |-> email, code |-> rawCode,
                              status |-> 400, token |-> NoToken]
                /\ UNCHANGED authDb
            ELSE
                \* orderBy createdAt desc: the newest row
                LET i == CHOOSE i \in found : \A j \in found : j <= i IN
                /\ authDb' = [authDb EXCEPT
                        !.verifications[i].consumed = TRUE,
                        !.users[normalizedEmail].status = "active",
                        !.issued = @ \cup {createToken(user.id)}]
                /\ lastOp' = [op |-> "verify", email |-> email, code |-> rawCode,
                              status |-> 200, token |-> createToken(user.id)]
    /\ AuthFrame

\* POST /resend-code; the cooldown has passed or not.
ResendCode(email, code, cooledDown) ==
    /\ Len(authDb.verifications) < MaxCodes
    /\ LET normalizedEmail == normalizeEmail(email) IN
       IF normalizedEmail \notin DOMAIN authDb.users THEN
            /\ lastOp' = [op |-> "resend", email |-> email, status |-> 404,
                          token |-> NoToken]
            /\ UNCHANGED authDb
       ELSE LET user == authDb.users[normalizedEmail] IN
            IF user.status = "active" THEN
                /\ lastOp' = [op |-> "resend", email |-> email, status |-> 400,
                              token |-> NoToken]
                /\ UNCHANGED authDb
            ELSE IF (\E i \in DOMAIN authDb.verifications :
                        authDb.verifications[i].userId = user.id) /\ ~cooledDown THEN
                /\ lastOp' = [op |-> "resend", email |-> email, status |-> 429,
                              token |-> NoToken]
                /\ UNCHANGED authDb
            ELSE
                /\ authDb' = [authDb EXCEPT
                        !.verifications = Append(@, NewVerification(user.id, code))]
                /\ lastOp' = [op |-> "resend", email |-> email, status |-> 200,
                              token |-> NoToken]
    /\ AuthFrame

\* Thirty minutes after a code was drawn: expiresAt is no longer in the
\* future.
Expire(i) ==
    /\ i \in DOMAIN authDb.verifications
    /\ ~authDb.verifications[i].expired
    /\ authDb' = [authDb EXCEPT !.verifications[i].expired = TRUE]
    /\ lastOp' = [op |-> "expire", row |-> i]
    /\ AuthFrame

\* The accounts router, and sockets that present the tokens it gave out.
NextAuth ==
    \/ \E e \in AuthEmails, p \in Passwords, code \in GeneratedCodes :
            Register(e, p, "Alice", code)
    \/ \E e \in AuthEmails, p \in Passwords : Login(e, p)
    \/ \E e \in AuthEmails, code \in RequestCodes : Verify(e, code)
    \/ \E e \in AuthEmails, code \in GeneratedCodes, cooledDown \in BOOLEAN :
            ResendCode(e, code, cooledDown)
    \/ \E i \in 1..MaxCodes : Expire(i)
    \/ ServerOnly /\ \E t \in authDb.issued :
            Handshake(1, [auth |-> t, header |-> NoHeader])

SpecAuth == Init /\ [][NextAuth]_vars

TypeOK ==
    /\ DOMAIN roomParticipants \subseteq RoomIds
    /\ DOMAIN roomChatHistory \subseteq RoomIds
    /\ DOMAIN accepted = DOMAIN roomChatHistory

\* ------------------------------------------------------------- the claims

\* What the last handler sent to whom.
NothingSent(out) == \A i \in DOMAIN out : out[i].to = {}

\* The snapshot of the last handler, when it was a completed join.
Snapshot == emitted[1].payload

Ids(history) == [i \in DOMAIN history |-> history[i].id]

Min(a, b) == IF a < b THEN a ELSE b

\* C1: no room id has a chat history (or any other per-room state) in the
\* registry unless the room has at least one participant in its presence map.
C1_NoStateWithoutParticipants ==
    \A r \in RoomIds :
        (r \in DOMAIN roomChatHistory \/ r \in DOMAIN roomParticipants)
            => /\ r \in DOMAIN roomParticipants
               /\ Len(roomParticipants[r]) >= 1

\* C2: the step that removes the last participant of a room deletes the
\* room's presence map and its chat history together, and a join of a room
\* without participants gets a snapshot whose participants are exactly the
\* joiner and whose chat history holds no message sent before a release.
C2_ReleaseThenFreshJoin ==
    [][ /\ \A r \in RoomIds :
              (r \in DOMAIN roomParticipants /\ r \notin DOMAIN roomParticipants')
                  => r \notin DOMAIN roomChatHistory'
        /\ (lastOp'.op = "join" /\ ~lastOp'.roomExisted)
              => /\ emitted'[1].ev = "session:joined"
                 /\ emitted'[1].payload.participants
                        = <<NewPresence(socketData[lastOp'.conn].user)>>
                 /\ \A i \in DOMAIN emitted'[1].payload.chatHistory :
                        emitted'[1].payload.chatHistory[i].id \notin released'
      ]_vars

\* A join of a released room whose history was refilled after the release.
C2_Witness ==
    /\ lastOp.op = "join"
    /\ ~lastOp.roomExisted
    /\ released # {}
    /\ Snapshot.chatHistory # <<>>

\* C3: the chat history of every room holds at most 50 messages.
C3_HistoryAtMostMax ==
    \A r \in DOMAIN roomChatHistory : Len(roomChatHistory[r]) <= MAX_CHAT_HISTORY

\* A full history that has evicted a message.
C3_Witness ==
    \E r \in DOMAIN roomChatHistory :
        /\ Len(roomChatHistory[r]) = MAX_CHAT_HISTORY
        /\ Len(accepted[r]) > MAX_CHAT_HISTORY

C5_JoinerOnceInSnapshot ==
    lastOp.op = "join" =>
        LET ps == Snapshot.participants
            u == socketData[lastOp.conn].user
        IN  /\ emitted[1].ev = "session:joined"
            /\ emitted[1].to \subseteq {lastOp.conn}
            /\ Cardinality({i \in DOMAIN ps : ps[i].userId = u}) = 1
            /\ \A i, j \in DOMAIN ps : ps[i].userId = ps[j].userId => i = j

\* A rejoin by a user already present, with another user in the room.
C5_Witness ==
    /\ lastOp.op = "join"
    /\ lastOp.wasPresent
    /\ Len(Snapshot.participants) = 2

\* C6: a leave-room for a room that is not in the connection's joined set
\* changes no presence map, chat history, delivery group or joined set and
\* sends no event to any connection.
C6_LeaveNotJoinedIsNoop ==
    [][ (lastOp'.op = "leave" /\ ~lastOp'.wasJoined)
            => /\ UNCHANGED <<roomParticipants, roomChatHistory, groups, socketData>>
               /\ NothingSent(emitted')
      ]_vars

\* C7: a disconnect of a connection whose joined set is empty changes no
\* presence map and no chat history and sends no event to any connection.
C7_DisconnectNothingJoined ==
    [][ (lastOp'.op = "disconnect" /\ lastOp'.rooms = <<>>)
            => /\ UNCHANGED <<roomParticipants, roomChatHistory>>
               /\ NothingSent(emitted')
      ]_vars

\* A connection that joined nothing has disconnected while its user is
\* present in a room through another connection.
C7_Witness ==
    /\ lastOp.op = "disconnect"
    /\ lastOp.rooms = <<>>
    /\ \E r \in DOMAIN roomParticipants :
            MapHas(roomParticipants[r], socketData[lastOp.conn].user)

\* C8: a cursor-update naming a room the sending connection has not joined
\* sends nothing and changes no presence record.
C8_CursorNotJoinedIsDropped ==
    [][ (lastOp'.op = "cursor" /\ ~lastOp'.wasJoined)
            => /\ UNCHANGED roomParticipants
               /\ NothingSent(emitted')
      ]_vars

\* C9: a join whose lookup resolves after its connection has disconnected
\* inserts no presence, adds the connection to no delivery group or joined
\* set, and broadcasts nothing.
C9_DisconnectCancelsPendingJoin ==
    [][ (lastOp'.op = "join" /\ conn[lastOp'.conn] = "closed")
            => /\ UNCHANGED <<roomParticipants, groups, socketData>>
               /\ NothingSent(emitted')
      ]_vars

C11_JoinUnknownRoomOnlyErrors ==
    [][ (lastOp'.op \in {"join", "join:notfound"} /\ lastOp'.roomId \notin dbRooms)
            => /\ lastOp'.op = "join:notfound"
               /\ UNCHANGED <<roomParticipants, roomChatHistory, groups, socketData>>
               /\ Len(emitted') = 1
               /\ emitted'[1].ev = "session:error"
               /\ emitted'[1].payload.roomId = lastOp'.roomId
               /\ emitted'[1].payload.message = "Room not found"
               /\ emitted'[1].to =
                     (IF conn[lastOp'.conn] = "live" THEN {lastOp'.conn} ELSE {})
      ]_vars

\* The error reached its requester while another connection was in a room.
C11_Witness ==
    /\ lastOp.op = "join:notfound"
    /\ emitted[1].to = {lastOp.conn}
    /\ \E d \in Conns \ {lastOp.conn} :
            conn[d] = "live" /\ socketData[d].rooms # <<>>

\* C12: a join changes nothing while its lookup is pending, and when the
\* lookup succeeds one step enters the delivery group and the joined set,
\* stores the presence, replies with the snapshot and broadcasts
\* participant-joined.
C12_JoinAllOrNothing ==
    [][ /\ lastOp'.op = "join:request"
            => /\ UNCHANGED <<roomParticipants, roomChatHistory, groups, socketData>>
               /\ emitted' = <<>>
               /\ <<lastOp'.conn, lastOp'.roomId>> \in pending'
        /\ lastOp'.op = "join"
            => LET c == lastOp'.conn
                   r == lastOp'.roomId
               IN  /\ <<c, r>> \in pending /\ <<c, r>> \notin pending'
                   /\ c \in groups'[r]
                   /\ r \in Range(socketData'[c].rooms)
                   /\ r \in DOMAIN roomParticipants'
                   /\ MapHas(roomParticipants'[r], socketData[c].user)
                   /\ Len(emitted') = 2
                   /\ emitted'[1].ev = "session:joined"
                   /\ emitted'[2].ev = "session:participant:joined"
      ]_vars

\* A join completed after another handler ran while its lookup was pending,
\* and its broadcast reached that other connection.
C12_Witness ==
    /\ lastOp.op = "join"
    /\ emitted[2].to # {}
    /\ roomChatHistory[lastOp.roomId] # <<>>

\* What a handshake presents: nothing, or a token that verifies or not, with
\* its subject.
NoneSupplied(hs) == hs.auth = NoToken /\ hs.header = NoHeader

PresentedVerifies(hs) ==
    IF hs.auth # NoToken THEN hs.auth.verifies
    ELSE hs.header.scheme = "Bearer " /\ hs.header.credentials.verifies

PresentedSubject(hs) ==
    IF hs.auth # NoToken THEN hs.auth.sub ELSE hs.header.credentials.sub

NoSession(c) == conn[c] = "idle" /\ socketData[c] = NoData

\* C13: a connection attempt without token is rejected with 'Authentication
\* required', one whose token fails verification with the library's error,
\* one whose subject has no account with 'User not found'; none of them
\* creates a session.
C13_RejectedHandshakes ==
    lastOp.op = "handshake" =>
        LET hs == lastOp.hs
            c == lastOp.conn
        IN  /\ NoneSupplied(hs)
                => lastOp.error = "Authentication required" /\ NoSession(c)
            /\ (~NoneSupplied(hs) /\ ~PresentedVerifies(hs))
                => lastOp.error = "invalid signature" /\ NoSession(c)
            /\ (~NoneSupplied(hs) /\ PresentedVerifies(hs)
                    /\ PresentedSubject(hs) \notin DbUsers)
                => lastOp.error = "User not found" /\ NoSession(c)

\* A verified token of a subject without account was rejected while another
\* connection was live.
C13_Witness ==
    /\ lastOp.op = "handshake"
    /\ lastOp.error = "User not found"
    /\ \E d \in Conns : conn[d] = "live"

RoomOps == {"join:request", "join", "join:notfound", "join:failed", "leave",
            "cursor", "chat", "disconnect"}

\* C14: a connection is verified once, before any of its handlers runs: a
\* handshake runs only for a connection without session, a session is
\* created only from a token that verifies and whose subject has an account,
\* with that identity and an empty joined set, every handler that runs
\* belongs to such a session, and the identity never changes.
C14_VerifiedOnceBeforeAnyOp ==
    [][ /\ lastOp'.op = "handshake"
            => LET c == lastOp'.conn
                   hs == lastOp'.hs
               IN  /\ conn[c] = "idle"
                   /\ conn'[c] = "live"
                        => /\ ~NoneSupplied(hs)
                           /\ PresentedVerifies(hs)
                           /\ PresentedSubject(hs) \in DbUsers
                           /\ socketData'[c] =
                                [user |-> PresentedSubject(hs), rooms |-> <<>>]
        /\ lastOp'.op \in RoomOps
            => /\ conn[lastOp'.conn] # "idle"
               /\ socketData[lastOp'.conn].user \in DbUsers
        /\ \A c \in Conns :
              conn[c] # "idle"
                => /\ conn'[c] # "idle"
                   /\ socketData'[c].user = socketData[c].user
      ]_vars

\* A handler ran for the second connection, admitted as another user.
C14_Witness ==
    /\ lastOp.op = "leave"
    /\ socketData[lastOp.conn].user = "bob"
    /\ socketData[lastOp.conn].rooms = <<>>

\* C15: a chat-send by a connection that has not joined the room, or whose
\* user has no presence in it, stores no message in the room's history and
\* delivers none to the room's members.
C15_ChatOnlyFromMembers ==
    [][ (/\ lastOp'.op = "chat"
         /\ \/ ~lastOp'.wasJoined
            \/ lastOp'.roomId \notin DOMAIN roomParticipants
            \/ ~MapHas(roomParticipants[lastOp'.roomId], socketData[lastOp'.conn].user))
            => /\ UNCHANGED roomChatHistory
               /\ NothingSent(emitted')
      ]_vars

IsBlank(content) == \A i \in DOMAIN content : content[i] \in Whitespace

\* C16: a chat-send whose content is not blank yields exactly one
\* chat-message with the trimmed content and the sender's user id and display
\* name, appended to the room's history and delivered to every connection of
\* the room's delivery group and to the sender.
C16_ChatDeliveredToRoomAndSender ==
    (lastOp.op = "chat" /\ ~IsBlank(lastOp.content)) =>
        LET c == lastOp.conn
            r == lastOp.roomId
        IN  /\ Len(emitted) = 1
            /\ emitted[1].ev = "chat:message"
            /\ emitted[1].payload.content = Trim(lastOp.content)
            /\ emitted[1].payload.userId = socketData[c].user
            /\ emitted[1].payload.displayName = DisplayName(socketData[c].user)
            /\ r \in DOMAIN roomChatHistory
            /\ roomChatHistory[r][Len(roomChatHistory[r])] = emitted[1].payload
            /\ emitted[1].to = {d \in groups[r] : conn[d] = "live"} \cup {c}

\* C17: a chat-send whose content is blank changes no chat history, creates
\* none, and sends nothing to anyone.
C17_BlankChatIsSilent ==
    [][ (lastOp'.op = "chat" /\ IsBlank(lastOp'.content))
            => /\ UNCHANGED <<roomChatHistory, roomParticipants, nextId>>
               /\ emitted' = <<>>
      ]_vars

\* A member sent a blank chat to a room with another member in it.
C17_Witness ==
    /\ lastOp.op = "chat"
    /\ IsBlank(lastOp.content)
    /\ lastOp.content # <<>>
    /\ lastOp.wasJoined
    /\ Cardinality(groups[lastOp.roomId]) = 2

\* C18: a completed join of room R by connection c adds c to R's delivery
\* group and R to c's joined set, stores the presence of c's user in R,
\* replies with the snapshot to c only, and sends participant-joined with the
\* new presence to the connections that were in R's delivery group before,
\* never to c.
C18_JoinEffects ==
    [][ lastOp'.op = "join"
            => LET c == lastOp'.conn
                   r == lastOp'.roomId
                   u == socketData[c].user
               IN  /\ groups' = [groups EXCEPT ![r] = @ \cup {c}]
                   /\ Range(socketData'[c].rooms) = Range(socketData[c].rooms) \cup {r}
                   /\ r \in DOMAIN roomParticipants'
                   /\ \E i \in DOMAIN roomParticipants'[r] :
                        /\ roomParticipants'[r][i] = emitted'[2].payload.participant
                        /\ roomParticipants'[r][i].userId = u
                   /\ Len(emitted') = 2
                   /\ emitted'[1].ev = "session:joined"
                   /\ emitted'[1].to = (IF conn[c] = "live" THEN {c} ELSE {})
                   /\ emitted'[2].ev = "session:participant:joined"
                   /\ emitted'[2].to = {d \in groups[r] \ {c} : conn[d] = "live"}
      ]_vars

\* A rejoin by a connection already in the group, with another member that
\* gets the broadcast.
C18_Witness ==
    /\ lastOp.op = "join"
    /\ lastOp.wasPresent
    /\ emitted[1].to = {lastOp.conn}
    /\ emitted[2].to # {}
    /\ Cardinality(groups[lastOp.roomId]) = 2

\* C19: a leave of a joined room R by connection c removes c from R's
\* delivery group, R from c's joined set and the presence of c's user from
\* R, releases R's state if no participant remains, and sends
\* participant-left with the user id to the connections that remain in R's
\* delivery group, not to c.
C19_LeaveEffects ==
    [][ (lastOp'.op = "leave" /\ lastOp'.wasJoined)
            => LET c == lastOp'.conn
                   r == lastOp'.roomId
                   u == socketData[c].user
               IN  /\ groups' = [groups EXCEPT ![r] = @ \ {c}]
                   /\ r \notin Range(socketData'[c].rooms)
                   /\ r \in DOMAIN roomParticipants'
                        => /\ ~MapHas(roomParticipants'[r], u)
                           /\ Len(roomParticipants'[r]) >= 1
                   /\ r \notin DOMAIN roomParticipants'
                        => r \notin DOMAIN roomChatHistory'
                   /\ Len(emitted') = 1
                   /\ emitted'[1].ev = "session:participant:left"
                   /\ emitted'[1].payload = [roomId |-> r, userId |-> u]
                   /\ emitted'[1].to = {d \in groups'[r] : conn[d] = "live"}
                   /\ c \notin emitted'[1].to
      ]_vars

\* C20: when a connection disconnects, every room R of its joined set gets
\* the leave cleanup: the presence of its user is removed from R, R's state
\* is released if no participant remains, and participant-left with the user
\* id is sent exactly once to the other connections of R's delivery group;
\* afterwards the joined set is empty, and the rooms outside the joined set
\* keep their presence map and chat history and are named by no event.
C20_DisconnectCleansJoinedRooms ==
    [][ lastOp'.op = "disconnect"
            => LET c == lastOp'.conn
                   u == socketData[c].user
                   rs == Range(lastOp'.rooms)
               IN  /\ socketData'[c].rooms = <<>>
                   /\ Len(emitted') = Cardinality(rs)
                   /\ \A r \in rs :
                        /\ r \in DOMAIN roomParticipants'
                             => /\ ~MapHas(roomParticipants'[r], u)
                                /\ Len(roomParticipants'[r]) >= 1
                        /\ r \notin DOMAIN roomParticipants'
                             => r \notin DOMAIN roomChatHistory'
                        /\ \E i \in DOMAIN emitted' :
                             /\ emitted'[i].ev = "session:participant:left"
                             /\ emitted'[i].payload = [roomId |-> r, userId |-> u]
                             /\ emitted'[i].to = {d \in groups[r] \ {c} : conn[d] = "live"}
                   /\ \A r \in RoomIds \ rs :
                        /\ r \in DOMAIN roomParticipants' <=> r \in DOMAIN roomParticipants
                        /\ r \in DOMAIN roomParticipants
                             => roomParticipants'[r] = roomParticipants[r]
                        /\ r \in DOMAIN roomChatHistory' <=> r \in DOMAIN roomChatHistory
                        /\ r \in DOMAIN roomChatHistory
                             => roomChatHistory'[r] = roomChatHistory[r]
                        /\ \A i \in DOMAIN emitted' : emitted'[i].payload.roomId # r
      ]_vars


\* C21: a cursor-update from a connection whose user has a presence record
\* in the named room replaces the record's cursor by the submitted cursor as
\* a whole, and sends cursor-update with the sender's user id and that cursor
\* to the other connections of the room's delivery group, not to the sender.
C21_CursorReplacedAndRelayed ==
    [][ (/\ lastOp'.op = "cursor"
         /\ lastOp'.roomId \in DOMAIN roomParticipants
         /\ MapHas(roomParticipants[lastOp'.roomId], socketData[lastOp'.conn].user))
            => LET c == lastOp'.conn
                   r == lastOp'.roomId
                   u == socketData[c].user
               IN  \E cur \in Cursors :
                     /\ r \in DOMAIN roomParticipants'
                     /\ Len(roomParticipants'[r]) = Len(roomParticipants[r])
                     /\ \A i \in DOMAIN roomParticipants[r] :
                          roomParticipants'[r][i] =
                             IF roomParticipants[r][i].userId = u
                             THEN [userId |-> u, displayName |-> DisplayName(u),
                                   email |-> Email(u), cursor |-> cur]
                             ELSE roomParticipants[r][i]
                     /\ emitted' = <<[to |-> {d \in groups[r] \ {c} : conn[d] = "live"},
                                      ev |-> "session:cursor",
                                      payload |-> [roomId |-> r, userId |-> u,
                                                   cursor |-> cur]]>>
      ]_vars

\* A cursor without tool replaced one that had a tool, and another member
\* of the room was told.
C21_Witness ==
    /\ lastOp.op = "cursor"
    /\ emitted # <<>>
    /\ emitted[1].to # {}
    /\ "tool" \notin DOMAIN emitted[1].payload.cursor
    /\ \E i \in DOMAIN roomParticipants[lastOp.roomId] :
          /\ roomParticipants[lastOp.roomId][i].userId = emitted[1].payload.userId
          /\ roomParticipants[lastOp.roomId][i].cursor = [x |-> 2, y |-> 2]


\* C22: a connection enters a room's delivery group only in the step of its
\* completed join, and in that step the snapshot is the first event emitted,
\* addressed to the joiner alone, and the participant-joined broadcast comes
\* after it and does not reach the joiner: nothing can be delivered to the
\* joiner between its entry into the group and its snapshot.
C22_SnapshotFirst ==
    [][ /\ \A c \in Conns, r \in RoomIds :
              (c \notin groups[r] /\ c \in groups'[r])
                  => /\ lastOp'.op = "join"
                     /\ lastOp'.conn = c
                     /\ lastOp'.roomId = r
        /\ lastOp'.op = "join"
              => LET c == lastOp'.conn IN
                 /\ emitted'[1].ev = "session:joined"
                 /\ emitted'[1].payload.roomId = lastOp'.roomId
                 /\ emitted'[1].to = (IF conn[c] = "live" THEN {c} ELSE {})
                 /\ \A i \in DOMAIN emitted' :
                      emitted'[i].ev # "session:joined"
                          => /\ i > 1
                             /\ c \notin emitted'[i].to
      ]_vars

\* A first join of a room that already had a member: the joiner got the
\* snapshot with both participants and the member got the broadcast.
C22_Witness ==
    /\ lastOp.op = "join"
    /\ ~lastOp.wasPresent
    /\ emitted[1].to = {lastOp.conn}
    /\ Len(emitted[1].payload.participants) = 2
    /\ emitted[2].to = Conns \ {lastOp.conn}


\* C23: every failure inside a handler is caught and reported to the
\* requester as one room-error, and never ends the coordination process.
C23_HandlerFailuresReported ==
    lastOp.op \in {"join:failed", "uncaught"}
        => /\ ~Crashed
           /\ Len(emitted) = 1
           /\ emitted[1].ev = "session:error"
           /\ emitted[1].to = ToSelf(lastOp.conn)


\* The states of the example: users A (alice, connection 1) and B (bob,
\* connection 2), room r1.
ExA == NewPresence("alice")
ExB == NewPresence("bob")

BothLive == conn[1] = "live" /\ conn[2] = "live"

\* r1 has no state and nobody is in its delivery group.
ExEmpty ==
    /\ "r1" \notin DOMAIN roomParticipants
    /\ "r1" \notin DOMAIN roomChatHistory
    /\ groups["r1"] = {}

\* A alone is in r1.
ExOnlyA ==
    /\ "r1" \in DOMAIN roomParticipants
    /\ roomParticipants["r1"] = <<ExA>>
    /\ "r1" \in DOMAIN roomChatHistory
    /\ groups["r1"] = {1}
    /\ "r1" \in Range(socketData[1].rooms)

\* A and B are in r1, A first.
ExBoth ==
    /\ "r1" \in DOMAIN roomParticipants
    /\ roomParticipants["r1"] = <<ExA, ExB>>
    /\ "r1" \in DOMAIN roomChatHistory
    /\ groups["r1"] = {1, 2}
    /\ "r1" \in Range(socketData[1].rooms)
    /\ "r1" \in Range(socketData[2].rooms)

\* C24: the example holds step by step.  From the empty room, A's join
\* yields the snapshot [A] with an empty chat history; then B's join yields
\* the snapshot [A, B] for B and participant-joined{B} for A; then A's chat
\* ' hi ' yields one chat-message 'hi' for A and B; then B's disconnect
\* yields participant-left{B} for A and leaves r1 with the one participant A;
\* then A's leave leaves r1 without state.
C24_ExampleTrace ==
    [][ /\ (ExEmpty /\ BothLive /\ lastOp'.op = "join"
                /\ lastOp'.conn = 1 /\ lastOp'.roomId = "r1")
            => /\ emitted'[1] = [to |-> {1}, ev |-> "session:joined",
                                payload |-> [roomId |-> "r1",
                                             participants |-> <<ExA>>,
                                             chatHistory |-> <<>>]]
               /\ emitted'[2].to = {}
               /\ ExOnlyA'
        /\ (ExOnlyA /\ roomChatHistory["r1"] = <<>> /\ BothLive
                /\ lastOp'.op = "join" /\ lastOp'.conn = 2 /\ lastOp'.roomId = "r1")
            => /\ emitted' =
                    << [to |-> {2}, ev |-> "session:joined",
                        payload |-> [roomId |-> "r1",
                                     participants |-> <<ExA, ExB>>,
                                     chatHistory |-> <<>>]],
                       [to |-> {1}, ev |-> "session:participant:joined",
                        payload |-> [roomId |-> "r1", participant |-> ExB]] >>
               /\ ExBoth'
        /\ (ExBoth /\ BothLive /\ lastOp'.op = "chat" /\ lastOp'.conn = 1
                /\ lastOp'.roomId = "r1" /\ lastOp'.content = <<" ", "h", "i", " ">>)
            => /\ Len(emitted') = 1
               /\ emitted'[1].to = {1, 2}
               /\ emitted'[1].ev = "chat:message"
               /\ emitted'[1].payload.content = <<"h", "i">>
               /\ emitted'[1].payload.userId = "alice"
               /\ roomChatHistory'["r1"] = Append(roomChatHistory["r1"], emitted'[1].payload)
               /\ ExBoth'
        /\ (ExBoth /\ BothLive /\ lastOp'.op = "disconnect" /\ lastOp'.conn = 2)
            => /\ \E i \in DOMAIN emitted' :
                    emitted'[i] = [to |-> {1}, ev |-> "session:participant:left",
                                   payload |-> [roomId |-> "r1", userId |-> "bob"]]
               /\ ExOnlyA'
               /\ roomChatHistory'["r1"] = roomChatHistory["r1"]
        /\ (ExOnlyA /\ conn[1] = "live" /\ lastOp'.op = "leave"
                /\ lastOp'.conn = 1 /\ lastOp'.roomId = "r1")
            => /\ "r1" \notin DOMAIN roomParticipants'
               /\ "r1" \notin DOMAIN roomChatHistory'
               /\ groups'["r1"] = {}
      ]_vars

\* The fourth step of the example has happened: B, who had joined r1, has
\* disconnected, A was told, and r1 still holds A and the message A sent.
C24_Witness ==
    /\ lastOp = [op |-> "disconnect", conn |-> 2, rooms |-> <<"r1">>]
    /\ emitted = <<[to |-> {1}, ev |-> "session:participant:left",
                    payload |-> [roomId |-> "r1", userId |-> "bob"]]>>
    /\ ExOnlyA
    /\ Len(roomChatHistory["r1"]) = 1
    /\ roomChatHistory["r1"][1].userId = "alice"


\* C25: every stroke-submit of a member of the room is stamped with the
\* sender's user id and display name and broadcast, once, to every connection
\* of the room's delivery group, the sender included; a second submission
\* with the same clientId is broadcast again.
C25_StrokeStampedAndBroadcast ==
    (lastOp.op = "stroke" /\ lastOp.wasJoined) =>
        LET c == lastOp.conn
            u == socketData[c].user
        IN  /\ Len(emitted) = 1
            /\ emitted[1].ev = "whiteboard:stroke"
            /\ emitted[1].to = ToRoom(groups, lastOp.roomId)
            /\ c \in emitted[1].to
            /\ emitted[1].payload.roomId = lastOp.roomId
            /\ emitted[1].payload.stroke.clientId = lastOp.clientId
            /\ emitted[1].payload.stroke.userId = u
            /\ emitted[1].payload.stroke.displayName = DisplayName(u)

\* C26: a board-clear by a member of the room sends board-cleared, naming
\* the clearing user, to every connection of the room's delivery group, the
\* sender included.
C26_ClearBroadcast ==
    (lastOp.op = "clear" /\ lastOp.wasJoined) =>
        LET c == lastOp.conn
        IN  /\ Len(emitted) = 1
            /\ emitted[1].ev = "whiteboard:clear"
            /\ emitted[1].to = ToRoom(groups, lastOp.roomId)
            /\ c \in emitted[1].to
            /\ emitted[1].payload = [roomId |-> lastOp.roomId,
                                     clearedBy |-> socketData[c].user]

\* C27: the snapshot of every completed join carries three parts: the
\* participants, the chat history and the room's stroke log.
C27_SnapshotHasStrokes ==
    lastOp.op = "join" =>
        /\ emitted[1].ev = "session:joined"
        /\ {"participants", "chatHistory", "whiteboardStrokes"}
                \subseteq DOMAIN emitted[1].payload


\* C28: the presence registry never maps a room id to an empty participants
\* map: an entry appears only in the step of a completed join, which stores
\* the joiner's presence in it, and the step that removes the last presence
\* of a room removes the entry.
C28_NoEmptyPresenceMap ==
    [][ \A r \in RoomIds :
          /\ r \in DOMAIN roomParticipants' => Len(roomParticipants'[r]) >= 1
          /\ (r \notin DOMAIN roomParticipants /\ r \in DOMAIN roomParticipants')
                => /\ lastOp'.op = "join"
                   /\ lastOp'.roomId = r
                   /\ MapHas(roomParticipants'[r], socketData[lastOp'.conn].user)
      ]_vars

\* The last presence of a room was removed by a leave and the entry went
\* with it.
C28_Witness ==
    /\ lastOp.op = "leave"
    /\ lastOp.wasJoined
    /\ lastOp.roomId \notin DOMAIN roomParticipants
    /\ released # {}
    /\ \E c \in Conns \ {lastOp.conn} : conn[c] = "live"

\* C29: if a live connection has room R in its joined set then its user has
\* a presence record in R, and a user has a presence record in R only if a
\* live connection of that user has R in its joined set.
C29_PresenceIffJoined ==
    /\ \A c \in Conns, r \in RoomIds :
          (conn[c] = "live" /\ r \in Range(socketData[c].rooms))
              => /\ r \in DOMAIN roomParticipants
                 /\ MapHas(roomParticipants[r], socketData[c].user)
    /\ \A r \in DOMAIN roomParticipants :
          \A i \in DOMAIN roomParticipants[r] :
              \E c \in Conns :
                  /\ conn[c] = "live"
                  /\ socketData[c].user = roomParticipants[r][i].userId
                  /\ r \in Range(socketData[c].rooms)

\* C30: when a connection's join of R is followed by its leave of R and the
\* join's lookup resolves after the leave was handled, then once both are
\* processed the connection is not in R's delivery group, R is not in its
\* joined set, and its user has no presence in R from that join.
C30_LeaveAfterJoinWins ==
    [][ (/\ lastOp.op = "leave"
         /\ <<lastOp.conn, lastOp.roomId>> \in pending
         /\ lastOp'.op \in {"join", "join:notfound", "join:failed"}
         /\ lastOp'.conn = lastOp.conn
         /\ lastOp'.roomId = lastOp.roomId)
            => LET c == lastOp.conn
                   r == lastOp.roomId
               IN  /\ c \notin groups'[r]
                   /\ r \notin Range(socketData'[c].rooms)
                   /\ roomParticipants' = roomParticipants
      ]_vars


\* C31: whenever no live connection exists and no join is pending, the
\* registry is empty: neither the presence map nor the chat-history map
\* holds any room id.
C31_NoRoomStateLeaks ==
    ((\A c \in Conns : conn[c] # "live") /\ pending = {})
        => /\ DOMAIN roomParticipants = {}
           /\ DOMAIN roomChatHistory = {}


\* The events that are relayed to a room, and those of them that the relay
\* keeps from the connection whose request caused them.
RelayedEvents ==
    {"session:participant:joined", "session:participant:left",
     "session:cursor", "chat:message"}

NotToSender ==
    {"session:participant:joined", "session:participant:left", "session:cursor"}

\* C32: a connection receives participant-joined, participant-left,
\* cursor-update and chat-message events for room R only while it is in R's
\* delivery group, it never receives a participant-joined, participant-left
\* or cursor-update event that its own request caused, and room-joined and
\* room-error reach only the requesting connection.
C32_DeliveryModes ==
    [][ \A i \in DOMAIN emitted' :
          LET e == emitted'[i] IN
          /\ e.ev \in RelayedEvents
                => \A d \in e.to : conn'[d] = "live" /\ d \in groups'[e.payload.roomId]
          /\ e.ev \in NotToSender => lastOp'.conn \notin e.to
          /\ e.ev \in {"session:joined", "session:error"} => e.to \subseteq {lastOp'.conn}
      ]_vars

\* A member's cursor update was relayed to the other member of the room and
\* not to the member itself.
C32_Witness ==
    /\ lastOp.op = "cursor"
    /\ emitted # <<>>
    /\ lastOp.conn \in groups[lastOp.roomId]
    /\ emitted[1].to = groups[lastOp.roomId] \ {lastOp.conn}
    /\ emitted[1].to # {}


\* Whether user u has a presence record in room r of registry rp, and the
\* record.
Present(rp, r, u) == r \in DOMAIN rp /\ MapHas(rp[r], u)

PresenceOf(rp, r, u) == rp[r][CHOOSE i \in DOMAIN rp[r] : rp[r][i].userId = u]

\* C33: a presence record's cursor is the most recent cursor update accepted
\* from that user in that room since the user's latest join, and is absent
\* if there was none. Step by step: a completed join stores a record without
\* a cursor for the joiner, also over an older record, and its snapshot is
\* the stored participants with their cursors; an accepted cursor update
\* makes the submitted cursor the stored one; no other step changes a record
\* that stays.
C33_CursorIsLastAccepted ==
    [][ /\ lastOp'.op = "join"
            => LET r == lastOp'.roomId
                   u == socketData[lastOp'.conn].user
               IN  /\ Present(roomParticipants', r, u)
                   /\ "cursor" \notin DOMAIN PresenceOf(roomParticipants', r, u)
                   /\ emitted'[1].payload.participants = roomParticipants'[r]
        /\ (lastOp'.op = "cursor" /\ emitted' # <<>>)
            => LET r == lastOp'.roomId
                   u == socketData[lastOp'.conn].user
               IN  /\ Present(roomParticipants', r, u)
                   /\ PresenceOf(roomParticipants', r, u).cursor
                        = emitted'[1].payload.cursor
        /\ \A r \in RoomIds, u \in DbUsers :
              (/\ Present(roomParticipants, r, u)
               /\ Present(roomParticipants', r, u)
               /\ ~(/\ lastOp'.op = "join" \/ (lastOp'.op = "cursor" /\ emitted' # <<>>)
                    /\ lastOp'.roomId = r
                    /\ socketData[lastOp'.conn].user = u))
                  => PresenceOf(roomParticipants', r, u) = PresenceOf(roomParticipants, r, u)
      ]_vars

\* A user who was present joined again while another participant's cursor
\* was stored: the snapshot shows the other's cursor and the joiner without
\* one.
C33_Witness ==
    /\ lastOp.op = "join"
    /\ lastOp.wasPresent
    /\ Len(roomParticipants[lastOp.roomId]) = 2
    /\ \E i \in 1..2 : "cursor" \in DOMAIN emitted[1].payload.participants[i]
    /\ \E i \in 1..2 :
          /\ emitted[1].payload.participants[i].userId = socketData[lastOp.conn].user
          /\ "cursor" \notin DOMAIN emitted[1].payload.participants[i]


\* The rooms the last handler was about: the room its request named, or the
\* joined set of the connection that closed.
Named(op) ==
    IF op.op = "disconnect" THEN Range(op.rooms)
    ELSE IF "roomId" \in DOMAIN op THEN {op.roomId}
    ELSE {}

\* What registry reg holds for room r.
Held(reg, r) == IF r \in DOMAIN reg THEN <<reg[r]>> ELSE <<>>

\* C34: a request handler that names room R leaves the presence map and the
\* chat history of every other room unchanged and sends no event to a
\* connection that is in other rooms' delivery groups only; a disconnect
\* changes only the rooms of the disconnecting connection's joined set.
C34_OtherRoomsUntouched ==
    [][ /\ \A r \in RoomIds \ Named(lastOp') :
              /\ Held(roomParticipants', r) = Held(roomParticipants, r)
              /\ Held(roomChatHistory', r) = Held(roomChatHistory, r)
        /\ \A i \in DOMAIN emitted' :
              \A d \in emitted'[i].to :
                  \/ d = lastOp'.conn
                  \/ \E r \in Named(lastOp') : d \in groups[r] \cup groups'[r]
      ]_vars

\* A member of r1 chatted there while the other connection was live in r2's
\* group only, r2 holding a presence: the message went to the sender alone.
C34_Witness ==
    /\ lastOp.op = "chat"
    /\ lastOp.roomId = "r1"
    /\ emitted # <<>>
    /\ emitted[1].to = {lastOp.conn}
    /\ \E d \in Conns \ {lastOp.conn} :
          /\ conn[d] = "live"
          /\ d \in groups["r2"] /\ d \notin groups["r1"]
    /\ "r2" \in DOMAIN roomParticipants


\* Whether connection c is live and in the delivery group of room r.
InGroup(g, cn, c, r) == cn[c] = "live" /\ c \in g[r]

\* C35: for a page that has received room-joined for R and stays in R's
\* delivery group, after each chat-message is delivered the page's chat list
\* equals the server's chat history of R, same messages in the same order
\* and never more than 50, as long as R's state is not released in between.
\* Step by step: the completed join of a live connection leaves its page
\* with the history; a step that keeps the connection in the group and the
\* history in the registry keeps the two lists equal.
C35_ChatReplica ==
    [][ \A c \in Conns :
          /\ (lastOp'.op = "join" /\ lastOp'.conn = c /\ conn'[c] = "live")
                => clients'[c].chatMessages = roomChatHistory'[lastOp'.roomId]
          /\ (/\ InGroup(groups, conn, c, "r1")
              /\ InGroup(groups', conn', c, "r1")
              /\ "r1" \in DOMAIN roomChatHistory
              /\ "r1" \in DOMAIN roomChatHistory'
              /\ clients[c].chatMessages = roomChatHistory["r1"])
                => /\ clients'[c].chatMessages = roomChatHistory'["r1"]
                   /\ Len(clients'[c].chatMessages) <= MAX_CHAT_HISTORY
      ]_vars

\* The page holds fifty messages, the oldest of the room was dropped on both
\* sides, and the lists are equal.
C35_Witness ==
    /\ lastOp.op = "chat"
    /\ InGroup(groups, conn, 1, "r1")
    /\ Len(clients[1].chatMessages) = MAX_CHAT_HISTORY
    /\ clients[1].chatMessages[1].id > 1
    /\ clients[1].chatMessages = roomChatHistory["r1"]


\* The user ids of a participant list, and the keys of the presence map of
\* room r.
UserIds(ps) == {ps[i].userId : i \in DOMAIN ps}

Keys(rp, r) == IF r \in DOMAIN rp THEN UserIds(rp[r]) ELSE {}

\* C36: a page's participant list never contains two entries with the same
\* user id, and once every emitted event has been delivered the user ids in
\* the list of a page that is in R's delivery group are the keys of the
\* server's presence map for R.
C36_ParticipantReplica ==
    \A c \in Conns :
        /\ \A i, j \in DOMAIN clients[c].participants :
              clients[c].participants[i].userId = clients[c].participants[j].userId
                  => i = j
        /\ InGroup(groups, conn, c, "r1")
              => UserIds(clients[c].participants) = Keys(roomParticipants, "r1")

\* A second connection of the page's own user joined the room: the page was
\* told and still lists the user once.
C36_Witness ==
    /\ lastOp.op = "join"
    /\ lastOp.conn = 2
    /\ lastOp.wasPresent
    /\ socketData[1].user = socketData[2].user
    /\ emitted[2].to = {1}
    /\ InGroup(groups, conn, 1, "r1")
    /\ Len(clients[1].participants) = 1


\* The places of list strokes that hold a stroke with clientId k.
WithClientId(strokes, k) ==
    {i \in DOMAIN strokes : "clientId" \in DOMAIN strokes[i] /\ strokes[i].clientId = k}

\* C37: when a stroke with clientId k arrives at a page, the page's list
\* afterwards holds exactly one stroke with clientId k, the one that arrived;
\* it stands where the optimistic copy stood and nothing else has changed,
\* or, when no stroke of the list had that clientId, it was appended; and the
\* list never holds two strokes with one clientId.
C37_StrokeReconciled ==
    [][ /\ (/\ lastOp'.op = "page:stroke"
            /\ lastOp'.payload.roomId = PageRoom
            /\ "clientId" \in DOMAIN lastOp'.payload.stroke)
              => LET stroke == lastOp'.payload.stroke
                     prev == clients[lastOp'.conn].strokes
                     next == clients'[lastOp'.conn].strokes
                     old == WithClientId(prev, stroke.clientId)
                 IN  /\ \E i \in DOMAIN next :
                            /\ WithClientId(next, stroke.clientId) = {i}
                            /\ next[i] = stroke
                     /\ IF old # {}
                        THEN /\ old = WithClientId(next, stroke.clientId)
                             /\ Len(next) = Len(prev)
                             /\ \A j \in DOMAIN prev \ old : next[j] = prev[j]
                        ELSE next = Append(prev, stroke)
        /\ \A c \in Conns : \A k \in ClientIds \cup ForeignIds :
              Cardinality(WithClientId(clients'[c].strokes, k)) <= 1
      ]_vars

\* The server's copy of the page's first stroke arrived after the page had
\* put another stroke behind the optimistic one: it stands first.
C37_Witness ==
    /\ lastOp.op = "page:stroke"
    /\ lastOp.payload.stroke = StampedStroke("k1")
    /\ "k1" \in clients[1].drawn
    /\ Len(clients[1].strokes) >= 2
    /\ clients[1].strokes[1] = StampedStroke("k1")


\* C38: once every emitted event has been delivered, every page in the
\* delivery group of the room holds a stroke list, and any two of them hold
\* the same strokes in the same order (the server keeps no stroke log to
\* compare with).
C38_BoardsConverge ==
    \A c, d \in Conns :
        (InGroup(groups, conn, c, PageRoom) /\ InGroup(groups, conn, d, PageRoom))
            => /\ ~clients[c].strokesUndefined
               /\ clients[c].strokes = clients[d].strokes


\* C39: a bearer credential for a user is issued only by a login that
\* presented the user's password for an active account, or by a verify that
\* presented a code stored for that user, unconsumed and unexpired.
C39_CredentialNeedsSecret ==
    [][ (/\ lastOp'.op \in {"register", "login", "verify", "resend"}
         /\ lastOp'.token # NoToken)
            => LET email == normalizeEmail(lastOp'.email) IN
               /\ email \in DOMAIN authDb.users
               /\ lastOp'.token = createToken(authDb.users[email].id)
               /\ \/ /\ lastOp'.op = "login"
                     /\ PasswordMatches(lastOp'.password, authDb.users[email].passwordHash)
                     /\ authDb.users[email].status = "active"
                  \/ /\ lastOp'.op = "verify"
                     /\ FindVerification(authDb, authDb.users[email].id,
                                         TrimCode(lastOp'.code)) # {}
      ]_vars

====
